---- MODULE Spec2Model ----
(***************************************************************************)
(* Model of src/v1/architecture_to_excalidraw.py: the layered layout       *)
(* engine (LayoutEngine), the style tables (StyleConfig) and the document  *)
(* builder (ArchitectureToExcalidraw.convert).                             *)
(*                                                                         *)
(* A conversion is a sequence of steps of one converter instance. Python   *)
(* strings are TLA+ strings, so the f-strings that build element ids are   *)
(* real concatenations. A dictionary key that is missing is the value      *)
(* Absent; a list-valued key that is missing is the empty sequence, which  *)
(* every reader of such a key (a truthiness test) treats like the missing  *)
(* key.                                                                    *)
(***************************************************************************)
EXTENDS Integers, Sequences, FiniteSets, TLC

VARIABLES input, pc, outcome, elements, idx,
          element_id_counter, node_positions,
          graph, in_degree, remaining, layers, current_layer, iterations,
          last_call, earlier_ids, query

vars == <<input, pc, outcome, elements, idx, element_id_counter,
          node_positions, graph, in_degree, remaining, layers,
          current_layer, iterations, last_call, earlier_ids, query>>

\* ------------------------------------------------------------------ bounds

MaxNodes == 3
MaxEdges == 2
MaxAlerts == 2
MaxSolved == 6
MaxBacklog == 2

\* The converter instances that may exist at once.
Conv == {1, 2}

\* ------------------------------------------------------- Python data model

\* A key that the dictionary does not have.
Absent == "<absent>"

\* dict.get(key, default)
Get(v, default) == IF v = Absent THEN default ELSE v

\* Truthiness of a string-valued dict.get(key): a missing key gives None.
Truthy(v) == v # Absent /\ v # ""

Range(s) == {s[k] : k \in DOMAIN s}

RECURSIVE Flatten(_)
Flatten(ss) == IF ss = <<>> THEN <<>> ELSE Head(ss) \o Flatten(Tail(ss))

\* Sequences over S of length at most n.
SeqsUpTo(S, n) == UNION {[1..k -> S] : k \in 0..n}

\* ------------------------------------------------------------- StyleConfig

TYPE_TO_SHAPE ==
    [client |-> "ellipse", gateway |-> "diamond", service |-> "rectangle",
     database |-> "rectangle", cache |-> "rectangle", queue |-> "rectangle",
     third_party |-> "rectangle"]

\* The icons are named, not drawn: the model keeps them pairwise distinct as
\* the source's emoji are ("service" and the fallback share the gear).
TYPE_TO_ICON ==
    [client |-> "(phone)", gateway |-> "(door)", service |-> "(gear)",
     database |-> "(cabinet)", cache |-> "(bolt)", queue |-> "(mailbox)",
     third_party |-> "(plug)"]

STATUS_TO_COLOR ==
    [new      |-> [stroke |-> "#2f9e44", fill |-> "#d3f9d8"],
     modified |-> [stroke |-> "#f59f00", fill |-> "#fff3bf"],
     stable   |-> [stroke |-> "#868e96", fill |-> "#e9ecef"]]

INTERACTION_TO_STROKE ==
    [sync  |-> [style |-> "solid", width |-> 2],
     async |-> [style |-> "dashed", width |-> 2]]

DEFAULT_NODE_SIZE == [width |-> 200, height |-> 100]

TEXT_STYLES ==
    [title      |-> [fontSize |-> 24, color |-> "#1e1e1e"],
     label      |-> [fontSize |-> 16, color |-> "#1e1e1e"],
     tech_stack |-> [fontSize |-> 12, color |-> "#495057"],
     alert      |-> [fontSize |-> 11, color |-> "#c92a2a"]]

\* dict.get(key, default) on a table
Lookup(table, key, default) ==
    IF key \in DOMAIN table THEN table[key] ELSE default

ShapeOfType(node_type) == Lookup(TYPE_TO_SHAPE, node_type, "rectangle")

IconOfType(node_type) == Lookup(TYPE_TO_ICON, node_type, "(gear)")

ColorsOfStatusNew(node_status) ==
    Lookup(STATUS_TO_COLOR, node_status, STATUS_TO_COLOR["new"])

ColorsOfStatus(node_status) ==
    Lookup(STATUS_TO_COLOR, node_status, STATUS_TO_COLOR["stable"])

StrokeOfInteraction(interaction) ==
    Lookup(INTERACTION_TO_STROKE, interaction, INTERACTION_TO_STROKE["sync"])

\* ------------------------------------------------------------ LayoutEngine

canvas_width == 2000
layer_spacing == 250
node_spacing == 300
margin == 100
title_offset == 150

\* Python's KeyError carries the missing key and nothing else.
KeyError(key) == [error |-> "KeyError", args |-> <<key>>]

\* Reading an attribute of None.
AttributeError == [error |-> "AttributeError", args |-> <<"NoneType">>]

NodeIds(nodes) == {nodes[k].id : k \in DOMAIN nodes}

\* The first required key whose read fails while the adjacency is built:
\* every node["id"] is read before any edge, then edge["source"] and
\* edge["target"] edge by edge. Absent when every read succeeds.
FirstBadEdge(edges) ==
    LET bad == {k \in DOMAIN edges :
                  edges[k].source = Absent \/ edges[k].target = Absent}
    IN  IF bad = {} THEN 0 ELSE CHOOSE k \in bad : \A j \in bad : k <= j

MissingKey(nodes, edges) ==
    IF \E k \in DOMAIN nodes : nodes[k].id = Absent THEN "id"
    ELSE IF FirstBadEdge(edges) = 0 THEN Absent
    ELSE IF edges[FirstBadEdge(edges)].source = Absent THEN "source"
    ELSE "target"

RECURSIVE AddEdges(_, _)
AddEdges(g, edges) ==
    IF edges = <<>> THEN g
    ELSE LET source == Head(edges).source
             target == Head(edges).target
         IN  AddEdges(IF source \in DOMAIN g
                         THEN [g EXCEPT ![source] = Append(@, target)]
                         ELSE g,
                      Tail(edges))

build_graph(nodes, edges) ==
    AddEdges([id \in NodeIds(nodes) |-> <<>>], edges)

\* in_degree[target] = 1 instead of the increment
CountTargetsOnce(deg, targets) ==
    [t \in DOMAIN deg \cup Range(targets) |->
        IF t \in Range(targets) THEN 1 ELSE deg[t]]

\* in_degree[target] = in_degree.get(target, 0) + 1 for every target
RECURSIVE CountTargets(_, _)
CountTargets(deg, targets) ==
    IF targets = <<>> THEN deg
    ELSE LET t == Head(targets)
         IN  CountTargets(IF t \in DOMAIN deg
                             THEN [deg EXCEPT ![t] = @ + 1]
                             ELSE deg @@ (t :> 1),
                          Tail(targets))

\* The targets read by "for node in nodes: for target in graph[node.id]".
OutLists(g, nodes, layer) == Flatten([k \in DOMAIN layer |-> g[nodes[layer[k]].id]])

AllIndices(nodes) == [k \in DOMAIN nodes |-> k]

InitialInDegree(g, nodes) ==
    CountTargets([id \in NodeIds(nodes) |-> 0],
                 OutLists(g, nodes, AllIndices(nodes)))

\* [node for node in nodes if in_degree[node["id"]] == 0], as indices
FirstLayer(nodes, deg) ==
    LET Keep(k) == deg[nodes[k].id] = 0 IN SelectSeq(AllIndices(nodes), Keep)

\* next(n for n in nodes if n["id"] == target)
NodeWithId(nodes, id) ==
    CHOOSE k \in DOMAIN nodes :
        /\ nodes[k].id = id
        /\ \A j \in DOMAIN nodes : nodes[j].id = id => k <= j

KeepAll(rem, id) == rem

Discard(rem, id) == rem \ {id}

PushFront(next_layer, k) == <<k>> \o next_layer

PushNext(next_layer, k) == Append(next_layer, k)

\* A breadth-first scan: a target joins the next layer as soon as one of its
\* sources has been processed, whatever its in-degree
RECURSIVE ScanTargetsAnyDegree(_, _, _)
ScanTargetsAnyDegree(s, nodes, targets) ==
    IF targets = <<>> THEN s
    ELSE LET t   == Head(targets)
             deg == [s.in_degree EXCEPT ![t] = @ - 1]
         IN  ScanTargetsAnyDegree(
                 [s EXCEPT !.in_degree = deg,
                           !.next_layer =
                               IF t \in s.remaining
                               THEN PushNext(@, NodeWithId(nodes, t))
                               ELSE @],
                 nodes, Tail(targets))

\* "for target in graph[node.id]": the decrement and the test of one target
RECURSIVE ScanTargets(_, _, _)
ScanTargets(s, nodes, targets) ==
    IF targets = <<>> THEN s
    ELSE LET t   == Head(targets)
             deg == [s.in_degree EXCEPT ![t] = @ - 1]
         IN  ScanTargets(
                 [s EXCEPT !.in_degree = deg,
                           !.next_layer =
                               IF deg[t] = 0 /\ t \in s.remaining
                               THEN PushNext(@, NodeWithId(nodes, t))
                               ELSE @],
                 nodes, Tail(targets))

\* "for node in current_layer": one pass of the while loop's body
RECURSIVE ScanLayer(_, _, _, _)
ScanLayer(s, g, nodes, layer) ==
    IF layer = <<>> THEN s
    ELSE LET id == nodes[Head(layer)].id
         IN  ScanLayer(
                 ScanTargets([s EXCEPT !.remaining = Discard(@, id)],
                             nodes, g[id]),
                 g, nodes, Tail(layer))

NoRemainingLayer(lays, nodes, rem) == lays

RemainingLayer(lays, nodes, rem) ==
    LET Keep(k) == nodes[k].id \in rem
    IN  IF rem # {} THEN Append(lays, SelectSeq(AllIndices(nodes), Keep)) ELSE lays

NodePosition(x, y, width, height) ==
    [x |-> x, y |-> y, width |-> width, height |-> height,
     center_x |-> x + width \div 2, center_y |-> y + height \div 2]

\* (canvas_width - layer_width) / 2 is exact: node_spacing is even.
LayerStartX(layer_nodes) ==
    (canvas_width - Len(layer_nodes) * node_spacing) \div 2

\* layer_y = start_y + layer_idx * self.node_spacing: the wrong spacing
PositionInLayerNodeSpacing(layer_idx, layer_nodes, node_idx) ==
    NodePosition(LayerStartX(layer_nodes) + node_idx * node_spacing,
                 (margin + title_offset) + layer_idx * node_spacing,
                 DEFAULT_NODE_SIZE.width, DEFAULT_NODE_SIZE.height)

PositionInLayer(layer_idx, layer_nodes, node_idx) ==
    NodePosition(LayerStartX(layer_nodes) + node_idx * node_spacing,
                 (margin + title_offset) + layer_idx * layer_spacing,
                 DEFAULT_NODE_SIZE.width, DEFAULT_NODE_SIZE.height)

\* positions[node_id] = ..., layer by layer and node by node (enumerate
\* counts from 0); a later write to the same id replaces the earlier one.
RECURSIVE PlaceNodes(_, _, _, _, _)
PlaceNodes(positions, nodes, lays, li, ni) ==
    IF li > Len(lays) THEN positions
    ELSE IF ni > Len(lays[li]) THEN PlaceNodes(positions, nodes, lays, li + 1, 1)
    ELSE LET id  == nodes[lays[li][ni]].id
             pos == PositionInLayer(li - 1, lays[li], ni - 1)
         IN  PlaceNodes(IF id \in DOMAIN positions
                           THEN [positions EXCEPT ![id] = pos]
                           ELSE positions @@ (id :> pos),
                        nodes, lays, li, ni + 1)

\* The empty dict.
EmptyMap == [id \in {} |-> 0]

Positions(nodes, lays) == PlaceNodes(EmptyMap, nodes, lays, 1, 1)

\* positions merged into the stored map instead of replacing it
Merge(stored, positions) ==
    [id \in DOMAIN stored \cup DOMAIN positions |->
        IF id \in DOMAIN positions THEN positions[id] ELSE stored[id]]

\* self.node_positions = positions
Overwrite(stored, positions) == positions

Sentinel == <<<<0, 0>>, <<0, 0>>>>

BothMissing(positions, source_id, target_id) ==
    source_id \notin DOMAIN positions /\ target_id \notin DOMAIN positions

EitherMissing(positions, source_id, target_id) ==
    source_id \notin DOMAIN positions \/ target_id \notin DOMAIN positions

\* A NodePosition is a dataclass without __bool__ or __len__: always truthy,
\* so "not source_pos" is exactly "the id has no position". Reading a field
\* of a missing position is the AttributeError of None, returned here as a
\* one-element tuple (the points are a pair).
IsRaise(result) == Len(result) = 1

get_edge_points(positions, source_id, target_id) ==
    IF EitherMissing(positions, source_id, target_id) THEN Sentinel
    ELSE IF source_id \notin DOMAIN positions \/ target_id \notin DOMAIN positions
         THEN <<AttributeError>>
    ELSE LET source_pos == positions[source_id]
             target_pos == positions[target_id]
         IN  <<<<source_pos.center_x, source_pos.y + source_pos.height>>,
               <<target_pos.center_x, target_pos.y>>>>

\* ------------------------------------------------- ArchitectureToExcalidraw

\* f"element_{self.element_id_counter}" after the increment
ElementId(counter) == "element_" \o ToString(counter)

\* One element of the output list. The keys that never vary (roughness,
\* opacity, angle, ...) are left out. role and of record the statement that
\* appended the element and the index of its node or edge (0: neither); they
\* are not keys of the Python dictionary.
Element(role, of, id, type, x, y, width, height, text) ==
    [role |-> role, of |-> of, id |-> id, type |-> type, x |-> x, y |-> y,
     width |-> width, height |-> height, text |-> text,
     strokeColor |-> Absent, backgroundColor |-> Absent,
     strokeWidth |-> 2, strokeStyle |-> "solid", points |-> <<>>]

Text(role, of, id, x, y, width, height, text, color) ==
    [Element(role, of, id, "text", x, y, width, height, text)
        EXCEPT !.strokeColor = color]

\* The elements a helper returns with the id counter it leaves behind.
Out(elems, counter) == [elements |-> elems, counter |-> counter]

create_title(data, counter) ==
    LET title_text == "Round " \o Get(data.round_id, "?") \o ": "
                          \o Get(data.round_title, "Architecture")
        title_elem == Text("title", 0, ElementId(counter + 1), 50, 20, 600, 40,
                           title_text, TEXT_STYLES.title.color)
        rationale_elem == Text("rationale", 0, ElementId(counter + 2), 50, 70,
                               800, 30, "(bulb) " \o data.decision_rationale,
                               "#495057")
    IN  IF Truthy(data.decision_rationale)
        THEN Out(<<title_elem, rationale_elem>>, counter + 2)
        ELSE Out(<<title_elem>>, counter + 1)

AlertElements(node, of, position, counter) ==
    [k \in DOMAIN node.alerts |->
        Text("alert", of,
             "alert_" \o node.id \o "_" \o ElementId(counter + k),
             position.x + 10, (position.y + 70) + (k - 1) * 18,
             position.width - 20, 15, "(warning) " \o node.alerts[k],
             TEXT_STYLES.alert.color)]

TechWhenPresent(tech_stack) == tech_stack # Absent

TechWanted(tech_stack) == Truthy(tech_stack)

\* _create_node for the node at index of; position is known.
create_node(node, of, position, counter) ==
    LET node_type   == Get(node.type, "service")
        node_status == Get(node.status, "stable")
        shape_type  == ShapeOfType(node_type)
        colors      == ColorsOfStatus(node_status)
        icon        == IconOfType(node_type)
        shape_elem  ==
            [Element("shape", of, "shape_" \o node.id, shape_type,
                     position.x, position.y, position.width, position.height,
                     Absent)
                EXCEPT !.strokeColor = colors.stroke,
                       !.backgroundColor = colors.fill]
        label_elem  ==
            Text("label", of, "label_" \o node.id, position.x + 10,
                 position.y + 15, position.width - 20, 25,
                 icon \o " " \o Get(node.label, node.id),
                 TEXT_STYLES.label.color)
        tech_elem   ==
            Text("tech_stack", of, "tech_" \o node.id, position.x + 10,
                 position.y + 45, position.width - 20, 20, node.tech_stack,
                 TEXT_STYLES.tech_stack.color)
    IN  Out(<<shape_elem, label_elem>>
              \o (IF TechWanted(node.tech_stack) THEN <<tech_elem>> ELSE <<>>)
              \o AlertElements(node, of, position, counter),
            counter + Len(node.alerts))

Abs(n) == IF n < 0 THEN -n ELSE n

\* _create_edge for the edge at index of, given the points that
\* get_edge_points returned (not an error).
create_edge(edge, of, points) ==
    LET interaction   == Get(edge.interaction, "sync")
        stroke_config == StrokeOfInteraction(interaction)
        start_x == points[1][1]
        start_y == points[1][2]
        end_x   == points[2][1]
        end_y   == points[2][2]
        edge_elem ==
            [Element("edge", of, "edge_" \o edge.source \o "_" \o edge.target,
                     "arrow", start_x, start_y, Abs(end_x - start_x),
                     Abs(end_y - start_y), Absent)
                EXCEPT !.strokeColor = "#1e1e1e",
                       !.strokeWidth = stroke_config.width,
                       !.strokeStyle = stroke_config.style,
                       !.points = <<<<0, 0>>, <<end_x - start_x, end_y - start_y>>>>]
        \* the midpoint is exact: all four coordinates are multiples of 50
        label_elem ==
            [Text("edge_label", of,
                  "edge_label_" \o edge.source \o "_" \o edge.target,
                  (start_x + end_x) \div 2 - 50, (start_y + end_y) \div 2 - 10,
                  100, 20, edge.label, "#495057")
                EXCEPT !.backgroundColor = "#ffffff", !.strokeWidth = 1]
    IN  IF points = Sentinel THEN <<>>
        ELSE <<edge_elem>> \o (IF Truthy(edge.label) THEN <<label_elem>> ELSE <<>>)

SetMax(S) == CHOOSE m \in S : \A n \in S : n <= m

\* max(pos.x + pos.width for pos in positions.values()) if positions else 1000
MaxRight(positions) ==
    IF DOMAIN positions = {} THEN 1000
    ELSE SetMax({positions[id].x + positions[id].width : id \in DOMAIN positions})

tracking_y == 200

create_evolution_tracking(tracking, positions, counter) ==
    LET tracking_x == MaxRight(positions) + 50
        solved     == tracking.solved_issues
        backlog    == tracking.new_backlog
        solved_elems ==
            IF solved = <<>> THEN <<>>
            ELSE <<Text("solved_title", 0, ElementId(counter + 1), tracking_x,
                        tracking_y, 300, 25, "(check) solved:", "#2f9e44")>>
                 \o [k \in DOMAIN solved |->
                        Text("solved_issue", 0, ElementId(counter + 1 + k),
                             tracking_x + 20, (tracking_y + 30) + (k - 1) * 25,
                             280, 20, "* " \o solved[k], "#495057")]
        c2         == counter + Len(solved_elems)
        backlog_y  == IF solved # <<>> THEN tracking_y + 150 ELSE tracking_y
        backlog_elems ==
            IF backlog = <<>> THEN <<>>
            ELSE <<Text("backlog_title", 0, ElementId(c2 + 1), tracking_x,
                        backlog_y, 300, 25, "(warning) new:", "#f59f00")>>
                 \o [k \in DOMAIN backlog |->
                        Text("backlog_issue", 0, ElementId(c2 + 1 + k),
                             tracking_x + 20, (backlog_y + 30) + (k - 1) * 25,
                             280, 20, "* " \o backlog[k], "#c92a2a")]
    IN  Out(solved_elems \o backlog_elems, c2 + Len(backlog_elems))

Document(elems) ==
    [type |-> "excalidraw", version |-> 2, source |-> "https://excalidraw.com",
     elements |-> elems]

Running == [status |-> "running"]

Returned(doc) == [status |-> "returned", document |-> doc]

Raised(err) == [status |-> "error", error |-> err.error, args |-> err.args]

\* -------------------------------------------------------------- the inputs

\* Node ids, with an underscore in one of them, and an id no node has.
IdPool == {"a", "a_a", "b"}
UnknownId == "x"

Node(id) ==
    [id |-> id, label |-> Absent, type |-> Absent, status |-> Absent,
     tech_stack |-> Absent, alerts |-> <<>>]

Edge(source, target) ==
    [source |-> source, target |-> target, interaction |-> Absent,
     label |-> Absent]

NoTracking == [present |-> FALSE, solved_issues |-> <<>>, new_backlog |-> <<>>]

Doc(nodes, edges) ==
    [round_id |-> "1", round_title |-> "Cache", decision_rationale |-> Absent,
     nodes |-> nodes, edges |-> edges, evolution_tracking |-> NoTracking]

\* Lists of at most MaxNodes nodes with pairwise distinct ids.
NodeLists ==
    {[k \in DOMAIN ids |-> Node(ids[k])] :
        ids \in {s \in SeqsUpTo(IdPool, MaxNodes) :
                    \A j, k \in DOMAIN s : j # k => s[j] # s[k]}}

Endpoints == IdPool \cup {UnknownId}

\* The endpoint pairs of an edge; at most one of the two is the unknown id
\* (MalformedDocs has the edge between two unknown ids).
EndpointPairs == (Endpoints \X IdPool) \cup (IdPool \X Endpoints)

\* Any edge list: cycles, self-loops, duplicates, unknown endpoints.
EdgeLists ==
    {[k \in DOMAIN ps |-> Edge(ps[k][1], ps[k][2])] :
        ps \in SeqsUpTo(EndpointPairs, MaxEdges)}

GraphDocs == {Doc(ns, es) : ns \in NodeLists, es \in EdgeLists}

NodeTypes == DOMAIN TYPE_TO_SHAPE \cup {Absent, "mainframe"}
NodeStatuses == DOMAIN STATUS_TO_COLOR \cup {Absent, "deprecated"}
Interactions == DOMAIN INTERACTION_TO_STROKE \cup {Absent, "stream"}
TechStacks == {Absent, "", "Go"}
AlertLists == SeqsUpTo({"hot", "slow"}, MaxAlerts)
Labels == {Absent, "", "calls"}

\* One node in every style, and two nodes that both carry alerts.
StyleDocs ==
    {Doc(<<[Node("a") EXCEPT !.type = ty, !.status = st, !.tech_stack = te,
                             !.alerts = al]>>, <<>>) :
        ty \in NodeTypes, st \in NodeStatuses, te \in TechStacks, al \in AlertLists}
    \cup
    {Doc(<<[Node("a") EXCEPT !.alerts = al, !.label = "API", !.tech_stack = "Go"],
           [Node("a_a") EXCEPT !.alerts = bl, !.tech_stack = te]>>,
         <<Edge("a", "a_a")>>) :
        al \in AlertLists, bl \in AlertLists, te \in TechStacks}
    \cup
    {Doc(<<[Node("b") EXCEPT !.type = "mainframe", !.status = "deprecated"],
           Node("a")>>,
         <<[Edge("a", "b") EXCEPT !.interaction = ia, !.label = la]>>) :
        ia \in Interactions, la \in Labels}

\* Records that lack a required key.
MalformedDocs ==
    {Doc(ns, <<Edge("a", "b")>>) :
        ns \in {<<Node(Absent)>>, <<Node("a"), Node(Absent)>>,
                <<Node(Absent), Node("b")>>}}
    \cup
    {Doc(<<Node("a"), Node("b")>>, [k \in DOMAIN ps |-> Edge(ps[k][1], ps[k][2])]) :
        ps \in SeqsUpTo({"a", UnknownId, Absent} \X {"b", UnknownId, Absent},
                        MaxEdges)}

Issues(n) == [k \in 1..n |-> "issue"]

TrackingDocs ==
    {[Doc(ns, <<>>) EXCEPT
        !.evolution_tracking = [present |-> TRUE, solved_issues |-> Issues(s),
                                new_backlog |-> Issues(b)]] :
        ns \in {<<>>, <<Node("a"), Node("b")>>}, s \in 0..MaxSolved,
        b \in 0..MaxBacklog}
    \cup
    {[Doc(<<>>, <<>>) EXCEPT !.round_id = ri, !.round_title = rt,
                             !.decision_rationale = dr] :
        ri \in {Absent, "1"}, rt \in {Absent, "Cache"}, dr \in {Absent, "", "why"}}

\* Three nodes in any order with the three edges p -> q, p -> r, q -> r in
\* any order: acyclic, and r is two layers below p although an edge joins them.
TriangleDocs ==
    {Doc([k \in 1..3 |-> Node(ns[k])],
         [k \in 1..3 |-> Edge(es[k][1], es[k][2])]) :
        ns \in {s \in [1..3 -> IdPool] : \A j, k \in 1..3 : j # k => s[j] # s[k]},
        es \in {s \in [1..3 -> IdPool \X IdPool] :
                    \E p, q, r \in IdPool :
                        /\ p # q /\ q # r /\ p # r
                        /\ Range(s) = {<<p, q>>, <<p, r>>, <<q, r>>}}}

Docs ==
    GraphDocs \cup StyleDocs \cup MalformedDocs \cup TrackingDocs \cup TriangleDocs

\* The documents two concurrent conversions draw from.
ParDocs ==
    {[Doc(<<[Node("a") EXCEPT !.alerts = <<"hot">>], Node("b")>>,
          <<[Edge("a", "b") EXCEPT !.label = "calls"]>>)
        EXCEPT !.evolution_tracking =
                   [present |-> TRUE, solved_issues |-> Issues(1),
                    new_backlog |-> Issues(1)]],
     [Doc(<<Node("b"), [Node("a") EXCEPT !.tech_stack = "Go"]>>,
          <<Edge("a", "b"), Edge(UnknownId, "a")>>)
        EXCEPT !.decision_rationale = "why"],
     Doc(<<Node("a"), Node("b")>>, <<Edge("a", "b"), Edge("b", "a")>>),
     Doc(<<Node("a")>>, <<Edge("a", Absent)>>)}

\* ------------------------------------------------------------------- state

\* Each ArchitectureToExcalidraw has its own element_id_counter and
\* constructs its own LayoutEngine (__init__).
SharedCounter(c) == 1

CounterOwner(c) == c

EngineOf(c) == c

\* The calls that a direct user of a LayoutEngine has made: the arguments of
\* the last calculate_layout that returned, the node ids passed to every
\* other calculate_layout, and the last get_edge_points since.
NoCall == [made |-> FALSE, nodes |-> <<>>, edges |-> <<>>]

NoQuery == [made |-> FALSE]

EngineCalls == <<last_call, earlier_ids, query>>

NotConstructed == [status |-> "none"]

InitWith(docs) ==
    /\ input \in [Conv -> docs]
    /\ pc = [c \in Conv |-> "title"]
    /\ outcome = [c \in Conv |-> Running]
    /\ elements = [c \in Conv |-> <<>>]
    /\ idx = [c \in Conv |-> 0]
    /\ element_id_counter = [c \in Conv |-> 0]
    /\ node_positions = [c \in Conv |-> EmptyMap]
    /\ graph = [c \in Conv |-> EmptyMap]
    /\ in_degree = [c \in Conv |-> EmptyMap]
    /\ remaining = [c \in Conv |-> {}]
    /\ layers = [c \in Conv |-> <<>>]
    /\ current_layer = [c \in Conv |-> <<>>]
    /\ iterations = [c \in Conv |-> 0]
    /\ last_call = NoCall
    /\ earlier_ids = {}
    /\ query = NoQuery

\* One converter, constructed and about to convert any document; the other
\* instance is never constructed.
Init ==
    /\ input \in {[c \in Conv |-> IF c = 1 THEN d ELSE Doc(<<>>, <<>>)] : d \in Docs}
    /\ pc = [c \in Conv |-> IF c = 1 THEN "title" ELSE "none"]
    /\ outcome = [c \in Conv |-> IF c = 1 THEN Running ELSE NotConstructed]
    /\ elements = [c \in Conv |-> <<>>]
    /\ idx = [c \in Conv |-> 0]
    /\ element_id_counter = [c \in Conv |-> 0]
    /\ node_positions = [c \in Conv |-> EmptyMap]
    /\ graph = [c \in Conv |-> EmptyMap]
    /\ in_degree = [c \in Conv |-> EmptyMap]
    /\ remaining = [c \in Conv |-> {}]
    /\ layers = [c \in Conv |-> <<>>]
    /\ current_layer = [c \in Conv |-> <<>>]
    /\ iterations = [c \in Conv |-> 0]
    /\ last_call = NoCall
    /\ earlier_ids = {}
    /\ query = NoQuery

\* Two converters, each about to convert its own document.
InitPar == InitWith(ParDocs)

Counter(c) == element_id_counter[CounterOwner(c)]

SetCounter(c, n) ==
    element_id_counter' = [element_id_counter EXCEPT ![CounterOwner(c)] = n]

Nodes(c) == input[c].nodes

Edges(c) == input[c].edges

LayoutLocals == <<graph, in_degree, remaining, layers, current_layer, iterations>>

\* ----------------------------------------------------------------- actions

\* convert, step 1: elements.extend(self._create_title(architecture_data))
CreateTitle(c) ==
    /\ pc[c] = "title"
    /\ LET out == create_title(input[c], Counter(c))
       IN  /\ elements' = [elements EXCEPT ![c] = @ \o out.elements]
           /\ SetCounter(c, out.counter)
    /\ pc' = [pc EXCEPT ![c] = "build_graph"]
    /\ UNCHANGED <<EngineCalls, input, outcome, idx, node_positions, LayoutLocals>>

\* calculate_layout: graph = self._build_graph(nodes, edges). A record that
\* lacks a required key raises KeyError out of convert.
BuildGraph(c) ==
    /\ pc[c] = "build_graph"
    /\ LET missing == MissingKey(Nodes(c), Edges(c))
       IN  IF missing # Absent
           THEN /\ outcome' = [outcome EXCEPT ![c] = Raised(KeyError(missing))]
                /\ pc' = [pc EXCEPT ![c] = "done"]
                /\ UNCHANGED graph
           ELSE /\ graph' = [graph EXCEPT ![c] = build_graph(Nodes(c), Edges(c))]
                /\ pc' = [pc EXCEPT ![c] = "in_degree"]
                /\ UNCHANGED outcome
    /\ UNCHANGED <<EngineCalls, input, elements, idx, element_id_counter, node_positions,
                   in_degree, remaining, layers, current_layer, iterations>>

\* _calculate_layers up to the while loop
StartLayers(c) ==
    /\ pc[c] = "in_degree"
    /\ LET deg == InitialInDegree(graph[c], Nodes(c))
       IN  /\ in_degree' = [in_degree EXCEPT ![c] = deg]
           /\ current_layer' = [current_layer EXCEPT ![c] = FirstLayer(Nodes(c), deg)]
    /\ layers' = [layers EXCEPT ![c] = <<>>]
    /\ remaining' = [remaining EXCEPT ![c] = NodeIds(Nodes(c))]
    /\ pc' = [pc EXCEPT ![c] = "while"]
    /\ UNCHANGED <<EngineCalls, input, outcome, elements, idx, element_id_counter,
                   node_positions, graph, iterations>>

\* The state of the while loop
LoopState(deg, rem, lays, layer) ==
    [in_degree |-> deg, remaining |-> rem, layers |-> lays,
     current_layer |-> layer, next_layer |-> <<>>]

\* One pass of "while current_layer"
WhileBody(s, g, nodes) ==
    LET t == ScanLayer([s EXCEPT !.layers = Append(@, s.current_layer),
                                 !.next_layer = <<>>],
                       g, nodes, s.current_layer)
    IN  [t EXCEPT !.current_layer = t.next_layer, !.next_layer = <<>>]

LayerLoop(c) ==
    /\ pc[c] = "while"
    /\ current_layer[c] # <<>>
    /\ LET s == WhileBody(LoopState(in_degree[c], remaining[c], layers[c],
                                    current_layer[c]),
                          graph[c], Nodes(c))
       IN  /\ in_degree' = [in_degree EXCEPT ![c] = s.in_degree]
           /\ remaining' = [remaining EXCEPT ![c] = s.remaining]
           /\ layers' = [layers EXCEPT ![c] = s.layers]
           /\ current_layer' = [current_layer EXCEPT ![c] = s.current_layer]
    /\ iterations' = [iterations EXCEPT ![c] = @ + 1]
    /\ UNCHANGED <<EngineCalls, input, pc, outcome, elements, idx, element_id_counter,
                   node_positions, graph>>

\* The loop has ended: the catch-all layer, then the rest of
\* calculate_layout (the positions, stored in the engine and returned).
FinishLayout(c) ==
    /\ pc[c] = "while"
    /\ current_layer[c] = <<>>
    /\ LET lays == RemainingLayer(layers[c], Nodes(c), remaining[c])
       IN  /\ layers' = [layers EXCEPT ![c] = lays]
           /\ node_positions' =
                  [node_positions EXCEPT
                      ![EngineOf(c)] = Overwrite(@, Positions(Nodes(c), lays))]
    /\ pc' = [pc EXCEPT ![c] = "nodes"]
    /\ idx' = [idx EXCEPT ![c] = 1]
    /\ UNCHANGED <<EngineCalls, input, outcome, elements, element_id_counter, graph,
                   in_degree, remaining, current_layer, iterations>>

\* convert, step 3: one pass of "for node in nodes". positions.get of an id
\* without a position is None, and _create_node then fails on position.x.
CreateNode(c) ==
    /\ pc[c] = "nodes"
    /\ idx[c] <= Len(Nodes(c))
    /\ LET node      == Nodes(c)[idx[c]]
           positions == node_positions[EngineOf(c)]
       IN  IF node.id \notin DOMAIN positions
           THEN /\ outcome' = [outcome EXCEPT ![c] = Raised(AttributeError)]
                /\ pc' = [pc EXCEPT ![c] = "done"]
                /\ UNCHANGED <<elements, idx, element_id_counter>>
           ELSE LET out == create_node(node, idx[c], positions[node.id], Counter(c))
                IN  /\ elements' = [elements EXCEPT ![c] = @ \o out.elements]
                    /\ SetCounter(c, out.counter)
                    /\ idx' = [idx EXCEPT ![c] = @ + 1]
                    /\ UNCHANGED <<pc, outcome>>
    /\ UNCHANGED <<EngineCalls, input, node_positions, LayoutLocals>>

\* The node loop has ended; "for edge in edges" begins.
StartEdges(c) ==
    /\ pc[c] = "nodes"
    /\ idx[c] > Len(Nodes(c))
    /\ pc' = [pc EXCEPT ![c] = "edges"]
    /\ idx' = [idx EXCEPT ![c] = 1]
    /\ UNCHANGED <<EngineCalls, input, outcome, elements, element_id_counter,
                   node_positions, LayoutLocals>>

\* convert, step 4: one pass of "for edge in edges"
CreateEdge(c) ==
    /\ pc[c] = "edges"
    /\ idx[c] <= Len(Edges(c))
    /\ LET edge   == Edges(c)[idx[c]]
           points == get_edge_points(node_positions[EngineOf(c)],
                                     edge.source, edge.target)
       IN  IF IsRaise(points)
           THEN /\ outcome' = [outcome EXCEPT ![c] = Raised(points[1])]
                /\ pc' = [pc EXCEPT ![c] = "done"]
                /\ UNCHANGED <<elements, idx>>
           ELSE /\ elements' = [elements EXCEPT
                                   ![c] = @ \o create_edge(edge, idx[c], points)]
                /\ idx' = [idx EXCEPT ![c] = @ + 1]
                /\ UNCHANGED <<pc, outcome>>
    /\ UNCHANGED <<EngineCalls, input, element_id_counter, node_positions, LayoutLocals>>

\* convert, steps 5 and 6: the evolution tracking block and the envelope
Finish(c) ==
    /\ pc[c] = "edges"
    /\ idx[c] > Len(Edges(c))
    /\ LET tracking == input[c].evolution_tracking
           out == IF tracking.present
                  THEN create_evolution_tracking(
                           tracking, node_positions[EngineOf(c)], Counter(c))
                  ELSE Out(<<>>, Counter(c))
       IN  /\ elements' = [elements EXCEPT ![c] = @ \o out.elements]
           /\ SetCounter(c, out.counter)
           /\ outcome' = [outcome EXCEPT
                             ![c] = Returned(Document(elements[c] \o out.elements))]
    /\ pc' = [pc EXCEPT ![c] = "done"]
    /\ UNCHANGED <<EngineCalls, input, idx, node_positions, LayoutLocals>>

Next ==
    \E c \in Conv :
        \/ CreateTitle(c)
        \/ BuildGraph(c)
        \/ StartLayers(c)
        \/ LayerLoop(c)
        \/ FinishLayout(c)
        \/ CreateNode(c)
        \/ StartEdges(c)
        \/ CreateEdge(c)
        \/ Finish(c)

Spec == Init /\ [][Next]_vars

SpecPar == InitPar /\ [][Next]_vars

\* ------------------------------------------- one conversion, run on its own

RECURSIVE RunLoop(_, _, _)
RunLoop(s, g, nodes) ==
    IF s.current_layer = <<>> THEN s ELSE RunLoop(WhileBody(s, g, nodes), g, nodes)

calculate_layers(g, nodes) ==
    LET deg == InitialInDegree(g, nodes)
        s   == RunLoop(LoopState(deg, NodeIds(nodes), <<>>, FirstLayer(nodes, deg)),
                       g, nodes)
    IN  RemainingLayer(s.layers, nodes, s.remaining)

calculate_layout(nodes, edges) ==
    Positions(nodes, calculate_layers(build_graph(nodes, edges), nodes))

\* "for node in nodes" from index k on
RECURSIVE NodeElements(_, _, _, _)
NodeElements(nodes, k, positions, counter) ==
    IF k > Len(nodes) THEN Out(<<>>, counter)
    ELSE LET out  == create_node(nodes[k], k, positions[nodes[k].id], counter)
             rest == NodeElements(nodes, k + 1, positions, out.counter)
         IN  Out(out.elements \o rest.elements, rest.counter)

\* "for edge in edges"
EdgeElements(edges, positions) ==
    Flatten([k \in DOMAIN edges |->
                create_edge(edges[k], k,
                            get_edge_points(positions, edges[k].source,
                                            edges[k].target))])

\* convert on a fresh ArchitectureToExcalidraw, with nothing else running
convert(data) ==
    LET nodes   == data.nodes
        edges   == data.edges
        title   == create_title(data, 0)
        missing == MissingKey(nodes, edges)
        positions == calculate_layout(nodes, edges)
        shapes  == NodeElements(nodes, 1, positions, title.counter)
        arrows  == EdgeElements(edges, positions)
        track   == IF data.evolution_tracking.present
                   THEN create_evolution_tracking(data.evolution_tracking,
                                                  positions, shapes.counter)
                   ELSE Out(<<>>, shapes.counter)
    IN  IF missing # Absent THEN Raised(KeyError(missing))
        ELSE IF \E k \in DOMAIN nodes : nodes[k].id \notin DOMAIN positions
             THEN Raised(AttributeError)
        ELSE IF \E k \in DOMAIN edges :
                    IsRaise(get_edge_points(positions, edges[k].source,
                                            edges[k].target))
             THEN Raised(AttributeError)
        ELSE Returned(Document(title.elements \o shapes.elements \o arrows
                                   \o track.elements))

\* ---------------------------------------- a LayoutEngine used on its own

\* The arguments of the direct calls: any node list with no or one edge, and
\* two calls that fail on an edge without a target.
EngineDocs ==
    {[nodes |-> ns, edges |-> es] :
        ns \in NodeLists,
        es \in {<<>>, <<Edge("a", "b")>>, <<Edge("b", "a")>>, <<Edge("a_a", "a")>>}}
    \cup
    {[nodes |-> ns, edges |-> <<Edge("a", Absent)>>] :
        ns \in {<<Node("a_a")>>, <<Node("b"), Node("a")>>}}

\* LayoutEngine(): no converter, the engine of index 1 with an empty map
InitEngine ==
    /\ input = [c \in Conv |-> Doc(<<>>, <<>>)]
    /\ pc = [c \in Conv |-> "none"]
    /\ outcome = [c \in Conv |-> NotConstructed]
    /\ elements = [c \in Conv |-> <<>>]
    /\ idx = [c \in Conv |-> 0]
    /\ element_id_counter = [c \in Conv |-> 0]
    /\ node_positions = [c \in Conv |-> EmptyMap]
    /\ graph = [c \in Conv |-> EmptyMap]
    /\ in_degree = [c \in Conv |-> EmptyMap]
    /\ remaining = [c \in Conv |-> {}]
    /\ layers = [c \in Conv |-> <<>>]
    /\ current_layer = [c \in Conv |-> <<>>]
    /\ iterations = [c \in Conv |-> 0]
    /\ last_call = NoCall
    /\ earlier_ids = {}
    /\ query = NoQuery

\* engine.calculate_layout(nodes, edges), as one step. A KeyError leaves
\* before line 166 and the stored map is as it was.
CalculateLayout(e, call) ==
    /\ IF MissingKey(call.nodes, call.edges) # Absent
       THEN /\ earlier_ids' = earlier_ids \cup NodeIds(call.nodes)
            /\ UNCHANGED <<node_positions, last_call>>
       ELSE /\ node_positions' =
                   [node_positions EXCEPT
                       ![e] = Overwrite(@, calculate_layout(call.nodes, call.edges))]
            /\ last_call' = [made |-> TRUE, nodes |-> call.nodes,
                             edges |-> call.edges]
            /\ earlier_ids' = earlier_ids \cup NodeIds(last_call.nodes)
    /\ query' = NoQuery
    /\ UNCHANGED <<input, pc, outcome, elements, idx, element_id_counter,
                   LayoutLocals>>

\* engine.get_edge_points(source_id, target_id)
GetEdgePoints(e, source_id, target_id) ==
    /\ query' = [made |-> TRUE, source_id |-> source_id, target_id |-> target_id,
                 result |-> get_edge_points(node_positions[e], source_id,
                                            target_id)]
    /\ UNCHANGED <<input, pc, outcome, elements, idx, element_id_counter,
                   node_positions, LayoutLocals, last_call, earlier_ids>>

NextEngine ==
    \/ \E call \in EngineDocs : CalculateLayout(1, call)
    \/ \E source_id, target_id \in Endpoints :
          GetEdgePoints(1, source_id, target_id)

SpecEngine == InitEngine /\ [][NextEngine]_vars

\* ------------------------------------------------------------------ claims

\* calculate_layout has returned to convert
LayoutDone(c) ==
    \/ pc[c] \in {"nodes", "edges"}
    \/ pc[c] = "done" /\ outcome[c].status = "returned"

HasReturned(c) == pc[c] = "done" /\ outcome[c].status = "returned"

Count(seq, Test(_)) == Cardinality({k \in DOMAIN seq : Test(seq[k])})

KnownEdge(c, k) ==
    /\ Edges(c)[k].source \in NodeIds(Nodes(c))
    /\ Edges(c)[k].target \in NodeIds(Nodes(c))

\* C1: for pairwise distinct node ids and any edge list, the layers are a
\* partition of the input nodes (every node in exactly one layer, exactly
\* once, and nothing else in any layer), every node gets a position, and
\* convert never fails on a node without a position.
C1_LayersPartitionNodes ==
    \A c \in Conv :
        /\ LayoutDone(c) =>
              LET flat == Flatten(layers[c])
              IN  /\ \A k \in DOMAIN Nodes(c) :
                        Cardinality({j \in DOMAIN flat : flat[j] = k}) = 1
                  /\ \A j \in DOMAIN flat : flat[j] \in DOMAIN Nodes(c)
                  /\ \A m \in DOMAIN layers[c] : layers[c][m] # <<>>
                  /\ DOMAIN node_positions[EngineOf(c)] = NodeIds(Nodes(c))
        /\ outcome[c].status = "error" => outcome[c].error # "AttributeError"

\* A cyclic three-node graph is laid out: one layer from the loop and the
\* catch-all layer.
C1_Witness ==
    /\ pc[1] = "edges"
    /\ Len(Nodes(1)) = 3
    /\ remaining[1] # {}
    /\ Len(layers[1]) = 2
    /\ \E k \in DOMAIN Edges(1) : ~KnownEdge(1, k)

\* C2: every pass of the layering loop removes at least one node from the
\* remaining set, so there are at most as many passes as nodes; when the
\* loop stops, the nodes still remaining (none of them in a layer yet) are
\* placed together in one final layer.
C2_LoopShrinksRemaining ==
    [][\A c \in Conv :
          /\ (pc[c] = "while" /\ iterations'[c] # iterations[c]) =>
                 /\ remaining'[c] \subseteq remaining[c]
                 /\ remaining'[c] # remaining[c]
          /\ iterations'[c] <= Len(Nodes(c))
          /\ (pc[c] = "while" /\ pc'[c] = "nodes") =>
                 /\ \A k \in Range(Flatten(layers[c])) :
                        Nodes(c)[k].id \notin remaining[c]
                 /\ IF remaining[c] = {} THEN layers'[c] = layers[c]
                    ELSE /\ Len(layers'[c]) = Len(layers[c]) + 1
                         /\ SubSeq(layers'[c], 1, Len(layers[c])) = layers[c]
                         /\ LET last == layers'[c][Len(layers'[c])]
                            IN  /\ {Nodes(c)[k].id : k \in Range(last)} = remaining[c]
                                /\ Len(last) = Cardinality(remaining[c])
      ]_vars

\* A node with a self-loop and a node reachable only through it end in the
\* final layer, after one pass of the loop.
C2_Witness ==
    /\ pc[1] = "nodes"
    /\ iterations[1] = 1
    /\ Cardinality(remaining[1]) = 2
    /\ Len(layers[1]) = 2
    /\ Len(layers[1][2]) = 2

\* C3: convert emits exactly one arrow for an edge whose source and target
\* are both node ids, and nothing (no arrow, no label) for any other edge;
\* no well-formed input raises an error.
C3_ArrowIffBothEndpointsKnown ==
    \A c \in Conv :
        /\ HasReturned(c) =>
              \A k \in DOMAIN Edges(c) :
                  LET Arrow(e) == e.type = "arrow" /\ e.of = k
                      OfEdge(e) == e.role \in {"edge", "edge_label"} /\ e.of = k
                  IN  IF KnownEdge(c, k)
                      THEN Count(elements[c], Arrow) = 1
                      ELSE Count(elements[c], OfEdge) = 0
        /\ HasReturned(c) =>
              LET AnyArrow(e) == e.type = "arrow"
              IN  Count(elements[c], AnyArrow)
                      = Cardinality({k \in DOMAIN Edges(c) : KnownEdge(c, k)})
        /\ (pc[c] = "done" /\ MissingKey(Nodes(c), Edges(c)) = Absent) =>
              outcome[c].status = "returned"

\* One edge is drawn and one edge with an unknown source but a known target
\* is left out.
C3_Witness ==
    /\ HasReturned(1)
    /\ \E j, k \in DOMAIN Edges(1) :
          /\ KnownEdge(1, j)
          /\ Edges(1)[k].source \notin NodeIds(Nodes(1))
          /\ Edges(1)[k].target \in NodeIds(Nodes(1))

\* C4: no two elements of a returned document have the same id.
C4_UniqueElementIds ==
    \A c \in Conv :
        HasReturned(c) =>
            \A j, k \in DOMAIN elements[c] :
                j # k => elements[c][j].id # elements[c][k].id

ShapeTypes == {"rectangle", "ellipse", "diamond"}

\* The elements of node k with the given id that pass Test
CountWithId(c, id, Test(_)) ==
    LET Hit(e) == e.id = id /\ Test(e) IN Count(elements[c], Hit)

IsShape(e) == e.type \in ShapeTypes

IsText(e) == e.type = "text"

\* The texts of the alert elements of node k, in output order
AlertTexts(c, k) ==
    LET Mine(e) == e.role = "alert" /\ e.of = k
        al == SelectSeq(elements[c], Mine)
    IN  [j \in DOMAIN al |-> al[j].text]

\* Every element that _create_node appended for node k
CountOfNode(c, k) ==
    LET Mine(e) == e.of = k /\ e.role \in {"shape", "label", "tech_stack", "alert"}
    IN  Count(elements[c], Mine)

NodeElementsAre(c, k, tech) ==
    LET node == Nodes(c)[k]
    IN  /\ CountWithId(c, "shape_" \o node.id, IsShape) = 1
        /\ CountWithId(c, "label_" \o node.id, IsText) = 1
        /\ CountWithId(c, "tech_" \o node.id, IsText) = tech
        /\ AlertTexts(c, k) = [j \in DOMAIN node.alerts |->
                                  "(warning) " \o node.alerts[j]]
        /\ CountOfNode(c, k) = 2 + tech + Len(node.alerts)

\* C5 as claimed: per node one shape, one label, one tech-stack text exactly
\* when the tech_stack key is present, and one alert text per alert, in order.
C5_TechWheneverPresent ==
    \A c \in Conv :
        HasReturned(c) =>
            \A k \in DOMAIN Nodes(c) :
                NodeElementsAre(c, k, IF Nodes(c)[k].tech_stack # Absent THEN 1 ELSE 0)

\* C5 as amended: per node one shape, one label, one tech-stack text exactly
\* when tech_stack is present and not empty, and one alert text per alert, in
\* the order of the alerts.
C5_ElementsPerNode ==
    \A c \in Conv :
        HasReturned(c) =>
            \A k \in DOMAIN Nodes(c) :
                NodeElementsAre(c, k,
                    IF Nodes(c)[k].tech_stack \notin {Absent, ""} THEN 1 ELSE 0)

\* A node with an empty tech_stack and two alerts has been rendered, next to
\* a node with a tech_stack.
C5_Witness ==
    /\ HasReturned(1)
    /\ \E j, k \in DOMAIN Nodes(1) :
          /\ Nodes(1)[k].tech_stack = ""
          /\ Len(Nodes(1)[k].alerts) = 2
          /\ Nodes(1)[k].alerts[1] # Nodes(1)[k].alerts[2]
          /\ Nodes(1)[j].tech_stack = "Go"

\* C6: a node of unknown type is a rectangle with the gear icon, a node of
\* unknown status has the stroke and fill of status stable, an edge of
\* unknown interaction has the line style and width of sync, and none of
\* them makes convert fail.
C6_StyleDefaults ==
    \A c \in Conv :
        /\ HasReturned(c) =>
              /\ \A k \in DOMAIN Nodes(c) :
                    LET node == Nodes(c)[k]
                        Shape(e) == e.id = "shape_" \o node.id
                        Label(e) == e.id = "label_" \o node.id
                    IN  \A j \in DOMAIN elements[c] :
                          LET e == elements[c][j]
                          IN  /\ (Shape(e) /\ node.type \notin DOMAIN TYPE_TO_SHAPE) =>
                                    e.type = "rectangle"
                              /\ (Label(e) /\ node.type \notin DOMAIN TYPE_TO_ICON) =>
                                    e.text = "(gear) " \o Get(node.label, node.id)
                              /\ (Shape(e) /\ node.status \notin {"new", "modified", "stable"}) =>
                                    /\ e.strokeColor = "#868e96"
                                    /\ e.backgroundColor = "#e9ecef"
              /\ \A j \in DOMAIN elements[c] :
                    LET e == elements[c][j]
                    IN  (e.type = "arrow"
                         /\ Edges(c)[e.of].interaction \notin {"sync", "async"}) =>
                            /\ e.strokeStyle = "solid"
                            /\ e.strokeWidth = 2
        /\ (pc[c] = "done" /\ MissingKey(Nodes(c), Edges(c)) = Absent) =>
              outcome[c].status = "returned"

\* A node of unknown type and unknown status and an arrow of unknown
\* interaction have been rendered.
C6_Witness ==
    /\ HasReturned(1)
    /\ \E k \in DOMAIN Nodes(1) :
          /\ Nodes(1)[k].type = "mainframe"
          /\ Nodes(1)[k].status = "deprecated"
    /\ \E j \in DOMAIN elements[1] :
          /\ elements[1][j].type = "arrow"
          /\ Edges(1)[elements[1][j].of].interaction = "stream"

\* The names by which an error could identify the records that lack a
\* required key
OffendingRecords(data) ==
    {"nodes[" \o ToString(k - 1) \o "]" :
        k \in {j \in DOMAIN data.nodes : data.nodes[j].id = Absent}}
    \cup {data.nodes[k].label : k \in {j \in DOMAIN data.nodes : data.nodes[j].id = Absent}}
    \cup {"edges[" \o ToString(k - 1) \o "]" :
            k \in {j \in DOMAIN data.edges :
                      data.edges[j].source = Absent \/ data.edges[j].target = Absent}}
    \cup {data.edges[k].source : k \in {j \in DOMAIN data.edges : data.edges[j].target = Absent}}
    \cup {data.edges[k].target : k \in {j \in DOMAIN data.edges : data.edges[j].source = Absent}}

\* C7: on a node without id or an edge without source or target, convert
\* ends in an error, and the error identifies the offending record.
C7_FailFastDescriptive ==
    \A c \in Conv :
        (pc[c] = "done" /\ MissingKey(Nodes(c), Edges(c)) # Absent) =>
            /\ outcome[c].status = "error"
            /\ \E a \in Range(outcome[c].args) :
                  a \in OffendingRecords(input[c]) \ {Absent}

\* C8: with one converter instance per conversion, each conversion returns
\* what it returns when run alone on a fresh instance, whatever the
\* interleaving of the steps.
C8_ConversionsDoNotInterfere ==
    \A c \in Conv : pc[c] = "done" => outcome[c] = convert(input[c])

\* One conversion has returned a document with counter-made ids while the
\* other, which draws ids from its counter too, is between its steps.
C8_Witness ==
    /\ HasReturned(1)
    /\ element_id_counter[1] > 2
    /\ pc[2] = "edges"
    /\ element_id_counter[2] > 1

\* The number of edges into node id, from any source
EdgesInto(c, id) ==
    Cardinality({j \in DOMAIN Edges(c) : Edges(c)[j].target = id})

\* The number of edges into node id whose source is a node id
KnownEdgesInto(c, id) ==
    Cardinality({j \in DOMAIN Edges(c) :
                    /\ Edges(c)[j].target = id
                    /\ Edges(c)[j].source \in NodeIds(Nodes(c))})

\* The targets of the edges with the given source, in edge list order
OutListOf(c, id) ==
    LET From(e) == e.source = id
        es == SelectSeq(Edges(c), From)
    IN  [j \in DOMAIN es |-> es[j].target]

\* The while loop is about to start
LayeringStarts(c) == pc[c] = "while" /\ iterations[c] = 0 /\ layers[c] = <<>>

\* C9 as claimed: the in-degree that starts the layering counts every edge
\* into the node, an edge with an unknown source included.
C9_InDegreeCountsEveryEdge ==
    \A c \in Conv :
        LayeringStarts(c) =>
            \A id \in NodeIds(Nodes(c)) : in_degree[c][id] = EdgesInto(c, id)

\* C9 as amended: the in-degree that starts the layering counts, for each
\* node, the edges into it whose source is a node id; an edge with an unknown
\* source adds nothing and is in no adjacency list.
C9_InDegreeCountsKnownSources ==
    \A c \in Conv :
        LayeringStarts(c) =>
            /\ \A id \in NodeIds(Nodes(c)) :
                  /\ in_degree[c][id] = KnownEdgesInto(c, id)
                  /\ graph[c][id] = OutListOf(c, id)
            /\ DOMAIN graph[c] = NodeIds(Nodes(c))

\* A node has one edge from a node and one from an unknown source.
C9_Witness ==
    /\ LayeringStarts(1)
    /\ \E id \in NodeIds(Nodes(1)) :
          /\ in_degree[1][id] = 1
          /\ EdgesInto(1, id) = 2

\* The targets scanned while layer m is the current layer
ScanOf(c, m) ==
    Flatten([j \in DOMAIN layers[c][m] |->
                OutListOf(c, Nodes(c)[layers[c][m][j]].id)])

\* Where, in the scan of layer m - 1, the last edge into node k is met
\* (0: nowhere)
Trigger(c, m, k) ==
    LET sc == ScanOf(c, m - 1)
        ps == {p \in DOMAIN sc : sc[p] = Nodes(c)[k].id}
    IN  IF ps = {} THEN 0 ELSE SetMax(ps)

\* The layers that the while loop made: all but the catch-all layer
LoopLayers(c) ==
    IF remaining[c] = {} THEN Len(layers[c]) ELSE Len(layers[c]) - 1

InInputOrder(layer) ==
    \A j \in 1..(Len(layer) - 1) : layer[j] < layer[j + 1]

\* C10: layer 0 holds the nodes of in-degree 0 in input order (all nodes, in
\* one layer, when there is no edge); a later layer holds its nodes in the
\* order in which the scan of the previous layer met the edge that brought
\* their in-degree to 0; the catch-all layer holds its nodes in input order.
C10_OrderWithinLayers ==
    \A c \in Conv :
        LayoutDone(c) =>
            LET lays == layers[c]
                Free(k) == KnownEdgesInto(c, Nodes(c)[k].id) = 0
                Left(k) == Nodes(c)[k].id \in remaining[c]
                first == SelectSeq(AllIndices(Nodes(c)), Free)
            IN  /\ first # <<>> => lays[1] = first
                /\ (Nodes(c) # <<>> /\ Edges(c) = <<>>) =>
                       lays = <<AllIndices(Nodes(c))>>
                /\ \A m \in 2..LoopLayers(c) :
                       \A j \in DOMAIN lays[m] :
                           /\ Trigger(c, m, lays[m][j]) > 0
                           /\ j > 1 => Trigger(c, m, lays[m][j - 1])
                                           < Trigger(c, m, lays[m][j])
                /\ remaining[c] # {} =>
                       lays[Len(lays)] = SelectSeq(AllIndices(Nodes(c)), Left)

\* A second layer whose order is the order of the edges, not of the input.
C10_Witness ==
    /\ pc[1] = "nodes"
    /\ Len(layers[1]) = 2
    /\ remaining[1] = {}
    /\ Len(layers[1][2]) = 2
    /\ ~InInputOrder(layers[1][2])

\* The position that the engine holds for the node at index k
PositionOf(c, k) == node_positions[EngineOf(c)][Nodes(c)[k].id]

\* The orders in which the nodes can be listed
Orders(c) ==
    {p \in [DOMAIN Nodes(c) -> DOMAIN Nodes(c)] :
        \A j, k \in DOMAIN Nodes(c) : j # k => p[j] # p[k]}

\* The edge list is exactly the chain p[1] -> p[2] -> ... -> p[n]
ChainAlong(c, p) ==
    /\ Nodes(c) # <<>>
    /\ Len(Edges(c)) = Len(Nodes(c)) - 1
    /\ \A i \in 1..(Len(Nodes(c)) - 1) :
          \E k \in DOMAIN Edges(c) :
              /\ Edges(c)[k].source = Nodes(c)[p[i]].id
              /\ Edges(c)[k].target = Nodes(c)[p[i + 1]].id

\* C11: every node of layer i (from 0) is at y = 100 + 150 + i * 250, so a
\* layer shares one y and consecutive layers are 250 apart; a pure chain of
\* n nodes gives n layers of one node each, in chain order.
C11_LayerYAndChains ==
    \A c \in Conv :
        LayoutDone(c) =>
            /\ \A m \in DOMAIN layers[c] :
                  \A j \in DOMAIN layers[c][m] :
                      PositionOf(c, layers[c][m][j]).y = (100 + 150) + (m - 1) * 250
            /\ \A p \in Orders(c) :
                  ChainAlong(c, p) =>
                      /\ layers[c] = [m \in DOMAIN Nodes(c) |-> <<p[m]>>]
                      /\ \A m \in 1..(Len(Nodes(c)) - 1) :
                            PositionOf(c, p[m + 1]).y = PositionOf(c, p[m]).y + 250

\* A chain of three nodes, listed in another order than the chain's, has
\* been laid out in three layers.
C11_Witness ==
    /\ pc[1] = "nodes"
    /\ Len(Nodes(1)) = 3
    /\ Len(layers[1]) = 3
    /\ layers[1][1] # <<1>>
    /\ \E p \in Orders(1) : ChainAlong(1, p)

\* C12: in every layer the gap between the canvas's left edge and the left
\* side of the first node equals the gap between the right side of the last
\* node and the canvas's right edge, and the nodes follow each other
\* node_spacing apart in layer order.
C12_LayersCentered ==
    \A c \in Conv :
        LayoutDone(c) =>
            \A m \in DOMAIN layers[c] :
                LET layer == layers[c][m]
                    first == PositionOf(c, layer[1])
                    last  == PositionOf(c, layer[Len(layer)])
                IN  /\ first.x - 0 = 2000 - (last.x + last.width)
                    /\ \A j \in 1..(Len(layer) - 1) :
                          PositionOf(c, layer[j + 1]).x
                              = PositionOf(c, layer[j]).x + 300

\* Every edge joins two node ids and no node reaches itself along edges:
\* the nodes can be ranked so that every edge goes to a higher rank.
AcyclicAndClosed(c) ==
    /\ \A k \in DOMAIN Edges(c) : KnownEdge(c, k)
    /\ \E rank \in [NodeIds(Nodes(c)) -> 1..Len(Nodes(c))] :
          \A k \in DOMAIN Edges(c) :
              rank[Edges(c)[k].source] < rank[Edges(c)[k].target]

\* The layer (from 0) that holds the node at index k
LayerOf(c, k) ==
    (CHOOSE m \in DOMAIN layers[c] : k \in Range(layers[c][m])) - 1

\* The indices of the nodes with an edge into the node at index k
Predecessors(c, k) ==
    {j \in DOMAIN Nodes(c) :
        \E e \in DOMAIN Edges(c) :
            /\ Edges(c)[e].source = Nodes(c)[j].id
            /\ Edges(c)[e].target = Nodes(c)[k].id}

\* C14: for an acyclic graph whose edge endpoints are all node ids the
\* layering is the longest-path layering (a node without incoming edges is in
\* layer 0, any other node one layer below the lowest of its predecessors),
\* so every edge goes to a strictly later layer, and every arrow emitted has
\* a strictly positive vertical displacement.
C14_LongestPathLayering ==
    \A c \in Conv :
        AcyclicAndClosed(c) =>
            /\ LayoutDone(c) =>
                  /\ \A k \in DOMAIN Nodes(c) :
                        LayerOf(c, k) =
                            IF Predecessors(c, k) = {} THEN 0
                            ELSE 1 + SetMax({LayerOf(c, j) : j \in Predecessors(c, k)})
                  /\ \A k \in DOMAIN Nodes(c) :
                        \A j \in Predecessors(c, k) : LayerOf(c, j) < LayerOf(c, k)
            /\ \A k \in DOMAIN elements[c] :
                  elements[c][k].type = "arrow" => elements[c][k].points[2][2] > 0

\* Three arrows have been drawn for a graph where one node has an edge from
\* the first layer and an edge from the second, and is in the third.
C14_Witness ==
    /\ HasReturned(1)
    /\ AcyclicAndClosed(1)
    /\ Len(layers[1]) = 3
    /\ \E k \in DOMAIN Nodes(1) :
          /\ LayerOf(1, k) = 2
          /\ {LayerOf(1, j) : j \in Predecessors(1, k)} = {0, 1}
    /\ Cardinality({k \in DOMAIN elements[1] : elements[1][k].type = "arrow"}) = 3

\* The positions in elements[c] of the elements with the given role, in
\* emission order
WithRole(c, role) ==
    LET Has(k) == elements[c][k].role = role
    IN  SelectSeq([k \in DOMAIN elements[c] |-> k], Has)

\* The lines with the given role follow each other downwards, each one
\* starting at or below the bottom of the one before.
Stacked(c, role) ==
    LET lines == WithRole(c, role)
    IN  \A k \in 1..(Len(lines) - 1) :
            LET above == elements[c][lines[k]]
                below == elements[c][lines[k + 1]]
            IN  /\ above.y < below.y
                /\ above.y + above.height <= below.y

\* C15: when both solved_issues and new_backlog are non-empty, the backlog
\* header starts at or below the bottom of every solved-issue line, and the
\* lines of each section are stacked at strictly increasing y without
\* overlap, for every number of solved issues.
C15_SectionsDoNotOverlap ==
    \A c \in Conv :
        (/\ HasReturned(c)
         /\ input[c].evolution_tracking.present
         /\ input[c].evolution_tracking.solved_issues # <<>>
         /\ input[c].evolution_tracking.new_backlog # <<>>) =>
            /\ \A h \in Range(WithRole(c, "backlog_title")) :
                  \A k \in Range(WithRole(c, "solved_issue")) :
                      elements[c][h].y >= elements[c][k].y + elements[c][k].height
            /\ Stacked(c, "solved_issue")
            /\ Stacked(c, "backlog_issue")

====
